---- MODULE Spec2Model ----
(***************************************************************************)
(* COCOBase (keras_cv/metrics/coco/base.py): the counters behind           *)
(* COCORecall / COCOPrecision and the greedy box matcher that feeds them.  *)
(*                                                                         *)
(* Numbers.  IoU values and IoU thresholds are kept in hundredths (0.5 is  *)
(* 50), so `iou >= threshold` on the floats of the code is `>=` on the     *)
(* integers here.  The float32 counters only ever hold small whole         *)
(* numbers and are kept as naturals.  Tensors are functions over 0..n-1,   *)
(* as tf.range indexes them; lists of boxes are sequences.                 *)
(***************************************************************************)
EXTENDS Integers, Sequences, FiniteSets, TLC

VARIABLES
    iou_thresholds,      \* self.iou_thresholds, tensor [T]
    category_ids,        \* self.category_ids, tensor [K]
    area_range,          \* self.area_range, <<min, max>>
    max_detections,      \* self.max_detections
    true_positives,      \* self.true_positives, tensor [T, K]
    false_positives,     \* self.false_positives, tensor [T, K]
    ground_truth_boxes,  \* self.ground_truth_boxes, tensor [K]
    given_iou_thresholds, \* history: the iou_thresholds argument __init__ was given
    seen,                \* history: the images passed to update_state since construction / the last reset
    last,                \* history: the last call, its arguments and the counters it started from
    m_y_true,            \* _match_boxes: argument y_true
    m_y_pred,            \* _match_boxes: argument y_pred
    m_threshold,         \* _match_boxes: argument threshold
    m_ious,              \* _match_boxes: argument ious
    m_pred_matches,      \* _match_boxes: the value returned
    m_pc                 \* _match_boxes: "call" before the call, "done" after it

acc_vars == <<iou_thresholds, category_ids, area_range, max_detections,
              true_positives, false_positives, ground_truth_boxes,
              given_iou_thresholds, seen, last>>
match_vars == <<m_y_true, m_y_pred, m_threshold, m_ious, m_pred_matches, m_pc>>
vars == <<acc_vars, match_vars>>

(***************************************************************************)
(* Bounds of the model.                                                    *)
(***************************************************************************)
MaxImages == 2   \* images accumulated between two resets
MaxTrue == 2     \* ground truths handed to one _match_boxes call
MaxPred == 2     \* detections handed to one _match_boxes call

Min(a, b) == IF a <= b THEN a ELSE b
Max(a, b) == IF a >= b THEN a ELSE b

(***************************************************************************)
(* Boxes.  A box is a row of a bounding-box tensor in corners format with  *)
(* its class and confidence columns; a class of -1 marks a padding row.    *)
(***************************************************************************)
Box(x1, y1, x2, y2, cls, conf) ==
    [x1 |-> x1, y1 |-> y1, x2 |-> x2, y2 |-> y2, cls |-> cls, conf |-> conf]

Sentinel == Box(-1, -1, -1, -1, -1, -1)

bbox_area(b) == (b.x2 - b.x1) * (b.y2 - b.y1)

filter_out_sentinels(boxes) == SelectSeq(boxes, LAMBDA b : b.cls # -1)

filter_boxes_by_area_range(boxes, min_area, max_area) ==
    SelectSeq(boxes, LAMBDA b : bbox_area(b) >= min_area /\ bbox_area(b) <= max_area)

filter_boxes(boxes, value) == SelectSeq(boxes, LAMBDA b : b.cls = value)

\* Stable insertion of b into a list already in descending confidence.
RECURSIVE insert_by_confidence(_, _)
insert_by_confidence(sorted, b) ==
    IF sorted = <<>> THEN <<b>>
    ELSE IF Head(sorted).conf >= b.conf
         THEN <<Head(sorted)>> \o insert_by_confidence(Tail(sorted), b)
         ELSE <<b>> \o sorted

RECURSIVE sort_image(_)
sort_image(boxes) ==
    IF boxes = <<>> THEN <<>>
    ELSE insert_by_confidence(sort_image(SubSeq(boxes, 1, Len(boxes) - 1)),
                              boxes[Len(boxes)])

\* util.sort_bboxes(y_pred, axis=bbox.CONFIDENCE): every image's rows by
\* descending confidence, rows of equal confidence in their given order.
sort_bboxes(y_pred) == [img \in DOMAIN y_pred |-> sort_image(y_pred[img])]

intersection_area(a, b) ==
    Max(0, Min(a.x2, b.x2) - Max(a.x1, b.x1)) * Max(0, Min(a.y2, b.y2) - Max(a.y1, b.y1))

iou_of(a, b) ==
    LET inter == intersection_area(a, b)
        union == bbox_area(a) + bbox_area(b) - inter
    IN  IF union = 0 THEN 0 ELSE (100 * inter) \div union

\* iou_lib.compute_ious_for_image: the table [ground truth, detection] => IoU.
compute_ious_for_image(ground_truths, detections) ==
    [g \in 0 .. Len(ground_truths) - 1 |->
        [d \in 0 .. Len(detections) - 1 |-> iou_of(ground_truths[g + 1], detections[d + 1])]]

(***************************************************************************)
(* COCOBase._match_boxes                                                   *)
(***************************************************************************)
\* Line 199, `gt_matches.gather([gt_idx]) > -1`, with the skip left out.
gt_is_matched_never(gt_matches, gt_idx) == FALSE

\* Line 199: the ground truth is already matched to an earlier detection.
gt_is_matched(gt_matches, gt_idx) == gt_matches[gt_idx] > -1

\* Line 204 with `>` for `>=`.
meets_threshold_strict(ious, gt_idx, detection_idx, threshold) ==
    ious[gt_idx][detection_idx] > threshold

\* Line 204: `ious[gt_idx, detection_idx] >= threshold`.  The comparison is
\* against the threshold argument, not against the running `iou`.
meets_threshold(ious, gt_idx, detection_idx, threshold) ==
    ious[gt_idx][detection_idx] >= threshold

\* Lines 198-207: the scan of the ground truths for one detection.  `cand`
\* holds the locals match_index and iou.
RECURSIVE scan_ground_truths(_, _, _, _, _, _, _)
scan_ground_truths(gt_idx, num_true, detection_idx, threshold, ious, gt_matches, cand) ==
    IF gt_idx = num_true THEN cand
    ELSE IF gt_is_matched(gt_matches, gt_idx)
         THEN scan_ground_truths(gt_idx + 1, num_true, detection_idx, threshold,
                                 ious, gt_matches, cand)
    ELSE IF ~ meets_threshold(ious, gt_idx, detection_idx, threshold)
         THEN scan_ground_truths(gt_idx + 1, num_true, detection_idx, threshold,
                                 ious, gt_matches, cand)
    ELSE scan_ground_truths(gt_idx + 1, num_true, detection_idx, threshold,
                            ious, gt_matches,
                            [match_index |-> gt_idx, iou |-> ious[gt_idx][detection_idx]])

\* Lines 194-213: the loop over the detections.  `st` holds the two
\* TensorArrays gt_matches and pred_matches.
RECURSIVE detection_loop(_, _, _, _, _, _)
detection_loop(detection_idx, num_true, num_pred, threshold, ious, st) ==
    IF detection_idx = num_pred THEN st
    ELSE LET cand == scan_ground_truths(0, num_true, detection_idx, threshold, ious,
                         st.gt_matches,
                         \* line 196: 1 - 1e-10 is 100 in hundredths
                         [match_index |-> -1, iou |-> Min(threshold, 100)])
             written == [st.pred_matches EXCEPT ![detection_idx] = cand.match_index]
         IN  IF cand.match_index = -1
             THEN detection_loop(detection_idx + 1, num_true, num_pred, threshold, ious,
                                 [st EXCEPT !.pred_matches = written])
             ELSE detection_loop(detection_idx + 1, num_true, num_pred, threshold, ious,
                                 [gt_matches |-> [st.gt_matches EXCEPT
                                                     ![cand.match_index] = detection_idx],
                                  pred_matches |-> written])

\* Lines 161-214.  The value is pred_matches.stack(): one entry per detection.
match_boxes(y_true, y_pred, threshold, ious) ==
    LET num_true == Len(y_true)
        num_pred == Len(y_pred)
    IN  detection_loop(0, num_true, num_pred, threshold, ious,
                       [gt_matches |-> [i \in 0 .. num_true - 1 |-> -1],
                        pred_matches |-> [i \in 0 .. num_pred - 1 |-> -1]]).pred_matches

(***************************************************************************)
(* COCOBase.__init__                                                       *)
(***************************************************************************)
\* _add_constant_weight: a weight of shape (len(values),) holding the values.
add_constant_weight(values) == [i \in 0 .. Len(values) - 1 |-> values[i + 1]]

\* Lines 36-38 with the fallback left out.
init_user_iou_thresholds_as_given(given) == given

\* Lines 36-38: `iou_thresholds or [x / 100.0 for x in range(50, 100, 5)]`.
\* None and the empty list are both falsy and both give 0.50, 0.55 .. 0.95.
init_user_iou_thresholds(given) ==
    IF given = <<>> THEN [i \in 1 .. 10 |-> 45 + 5 * i] ELSE given

\* Lines 52-69: add_weight(..., initializer=Zeros()).
zeros2(num_thresholds, num_categories) ==
    [t \in 0 .. num_thresholds - 1 |-> [k \in 0 .. num_categories - 1 |-> 0]]
zeros1(num_categories) == [k \in 0 .. num_categories - 1 |-> 0]

num_thresholds == Cardinality(DOMAIN iou_thresholds)   \* self.iou_thresholds.shape[0]
num_categories == Cardinality(DOMAIN category_ids)     \* self.category_ids.shape[0]

(***************************************************************************)
(* COCOBase.update_state                                                   *)
(***************************************************************************)
\* Line 85, `if sample_weight:`, Python's truth value of the argument.  The
\* argument is None or a Python number.
is_truthy(sample_weight) == ~ sample_weight.none /\ sample_weight.value # 0

\* Lines 119-121 with the truncation left out.
cap_detections_uncapped(category_filtered_y_pred) == category_filtered_y_pred

\* Lines 119-121: at most max_detections rows, the first ones.
cap_detections(category_filtered_y_pred) ==
    IF max_detections < Len(category_filtered_y_pred)
    THEN SubSeq(category_filtered_y_pred, 1, max_detections)
    ELSE category_filtered_y_pred

\* Lines 136-142: the number of entries of pred_matches that are / are not -1.
true_positives_sum(pred_matches) ==
    Cardinality({d \in DOMAIN pred_matches : pred_matches[d] # -1})
false_positives_sum(pred_matches) ==
    Cardinality({d \in DOMAIN pred_matches : pred_matches[d] = -1})

\* Lines 129-149: the loop over the thresholds for one image and category.
RECURSIVE threshold_loop(_, _, _, _, _, _)
threshold_loop(t_i, k_i, ground_truths, detections, ious, upd) ==
    IF t_i = num_thresholds THEN upd
    ELSE LET threshold == iou_thresholds[t_i]
             pred_matches == match_boxes(ground_truths, detections, threshold, ious)
         IN  threshold_loop(t_i + 1, k_i, ground_truths, detections, ious,
                 [upd EXCEPT
                     !.true_positives[t_i][k_i] = @ + true_positives_sum(pred_matches),
                     !.false_positives[t_i][k_i] = @ + false_positives_sum(pred_matches)])

\* Lines 151-155 with the count written over the entry instead of added.
add_ground_truth_boxes_overwrite(ground_truth_boxes_update, k_i, ground_truths) ==
    [ground_truth_boxes_update EXCEPT ![k_i] = Len(ground_truths)]

\* Lines 151-155: tensor_scatter_nd_add of the number of ground truths at [k_i].
add_ground_truth_boxes(ground_truth_boxes_update, k_i, ground_truths) ==
    [ground_truth_boxes_update EXCEPT ![k_i] = @ + Len(ground_truths)]

\* Lines 112-155: the loop over the categories for one image.
RECURSIVE category_loop(_, _, _, _)
category_loop(k_i, area_filtered_y_true, area_filtered_y_pred, upd) ==
    IF k_i = num_categories THEN upd
    ELSE LET category == category_ids[k_i]
             category_filtered_y_pred == filter_boxes(area_filtered_y_pred, category)
             detections == cap_detections(category_filtered_y_pred)
             ground_truths == filter_boxes(area_filtered_y_true, category)
             ious == compute_ious_for_image(ground_truths, detections)
             counted == threshold_loop(0, k_i, ground_truths, detections, ious, upd)
         IN  category_loop(k_i + 1, area_filtered_y_true, area_filtered_y_pred,
                 [counted EXCEPT !.ground_truth_boxes =
                     add_ground_truth_boxes(counted.ground_truth_boxes, k_i, ground_truths)])

\* Lines 100-155: the loop over the images of the batch (y_pred sorted).
RECURSIVE image_loop(_, _, _, _)
image_loop(img, y_true, y_pred, upd) ==
    IF img > Len(y_true) THEN upd
    ELSE LET sentinel_filtered_y_true == filter_out_sentinels(y_true[img])
             sentinel_filtered_y_pred == filter_out_sentinels(y_pred[img])
             area_filtered_y_true == filter_boxes_by_area_range(
                 sentinel_filtered_y_true, area_range[1], area_range[2])
             area_filtered_y_pred == filter_boxes_by_area_range(
                 sentinel_filtered_y_pred, area_range[1], area_range[2])
         IN  image_loop(img + 1, y_true, y_pred,
                 category_loop(0, area_filtered_y_true, area_filtered_y_pred, upd))

\* Lines 94-155: the three update tensors one call computes, from zeros.
compute_update(y_true, y_pred) ==
    image_loop(1, y_true, sort_bboxes(y_pred),
        [true_positives |-> zeros2(num_thresholds, num_categories),
         false_positives |-> zeros2(num_thresholds, num_categories),
         ground_truth_boxes |-> zeros1(num_categories)])

\* Lines 157-159 with assign for assign_add.
assign_add_overwrite(c, upd) == upd

\* Lines 157-159: assign_add of the three update tensors.
assign_add(c, upd) ==
    [true_positives |->
        [t \in DOMAIN c.true_positives |->
            [k \in DOMAIN c.true_positives[t] |->
                c.true_positives[t][k] + upd.true_positives[t][k]]],
     false_positives |->
        [t \in DOMAIN c.false_positives |->
            [k \in DOMAIN c.false_positives[t] |->
                c.false_positives[t][k] + upd.false_positives[t][k]]],
     ground_truth_boxes |->
        [k \in DOMAIN c.ground_truth_boxes |->
            c.ground_truth_boxes[k] + upd.ground_truth_boxes[k]]]

\* The three counters as one record.
counters == [true_positives |-> true_positives,
             false_positives |-> false_positives,
             ground_truth_boxes |-> ground_truth_boxes]

\* Lines 71-75 with the third assign left out.
reset_counters_keep_ground_truths(c) ==
    [c EXCEPT !.true_positives = [t \in DOMAIN @ |-> [k \in DOMAIN @[t] |-> 0]],
              !.false_positives = [t \in DOMAIN @ |-> [k \in DOMAIN @[t] |-> 0]]]

\* Lines 73-75: every counter assigned tf.zeros_like of itself.
reset_counters(c) ==
    [true_positives |-> [t \in DOMAIN c.true_positives |->
                            [k \in DOMAIN c.true_positives[t] |-> 0]],
     false_positives |-> [t \in DOMAIN c.false_positives |->
                            [k \in DOMAIN c.false_positives[t] |-> 0]],
     ground_truth_boxes |-> [k \in DOMAIN c.ground_truth_boxes |-> 0]]

(***************************************************************************)
(* Inputs.                                                                 *)
(***************************************************************************)
BoxA(cls, conf) == Box(0, 0, 2, 1, cls, conf)   \* area 2
BoxB(cls, conf) == Box(0, 0, 1, 1, cls, conf)   \* area 1, IoU 0.5 with BoxA

\* One image's rows of y_true and of y_pred, padded with sentinels.
TrueTensors == { <<BoxA(1, 0), BoxB(1, 0)>>,
                 <<BoxA(1, 0), Sentinel>>,
                 <<BoxA(2, 0), BoxB(1, 0)>> }
PredTensors == { <<BoxB(1, 1), BoxA(1, 2)>>,
                 <<Sentinel, BoxA(2, 2)>> }

\* Arguments of __init__.  <<>> for iou_thresholds is the empty list (None
\* takes the same branch of line 36).
ThresholdChoices == { <<>>, <<50, 75>> }
CategoryChoices == { <<>>, <<1, 2>> }
AreaRangeChoices == { <<0, 2147483647>>, <<0, 1>> }
MaxDetectionChoices == { 1, 2 }

\* The sample_weight argument: None (the default) or a Python number.
None == [none |-> TRUE, value |-> 0]
Number(v) == [none |-> FALSE, value |-> v]
SampleWeights == { None, Number(0), Number(1) }

\* Arguments of _match_boxes.
IoUValues == { 40, 50, 60 }
MatchThresholds == { 50, 60 }

NoImages == [y_true |-> <<>>, y_pred |-> <<>>]

(***************************************************************************)
(* The metric object: __init__, update_state, reset_state.                 *)
(***************************************************************************)
MatchIdle ==
    /\ m_y_true = <<>>
    /\ m_y_pred = <<>>
    /\ m_threshold = 50
    /\ m_ious = <<>>
    /\ m_pred_matches = <<>>
    /\ m_pc = "idle"

Init ==
    /\ given_iou_thresholds \in ThresholdChoices
    /\ iou_thresholds = add_constant_weight(init_user_iou_thresholds(given_iou_thresholds))
    /\ \E ids \in CategoryChoices : category_ids = add_constant_weight(ids)
    /\ area_range \in AreaRangeChoices
    /\ max_detections \in MaxDetectionChoices
    /\ true_positives = zeros2(num_thresholds, num_categories)
    /\ false_positives = zeros2(num_thresholds, num_categories)
    /\ ground_truth_boxes = zeros1(num_categories)
    /\ seen = NoImages
    /\ last = [op |-> "init", sample_weight |-> None, y_true |-> <<>>, y_pred |-> <<>>,
               before |-> counters]
    /\ MatchIdle

AllZero(c) ==
    /\ \A t \in DOMAIN c.true_positives : \A k \in DOMAIN c.true_positives[t] :
          c.true_positives[t][k] = 0 /\ c.false_positives[t][k] = 0
    /\ \A k \in DOMAIN c.ground_truth_boxes : c.ground_truth_boxes[k] = 0

NotBelow(c, d) ==
    /\ \A t \in DOMAIN c.true_positives : \A k \in DOMAIN c.true_positives[t] :
          /\ c.true_positives[t][k] >= d.true_positives[t][k]
          /\ c.false_positives[t][k] >= d.false_positives[t][k]
    /\ \A k \in DOMAIN c.ground_truth_boxes :
          c.ground_truth_boxes[k] >= d.ground_truth_boxes[k]

set_counters(c) ==
    /\ true_positives' = c.true_positives
    /\ false_positives' = c.false_positives
    /\ ground_truth_boxes' = c.ground_truth_boxes

\* update_state(y_true, y_pred, sample_weight), lines 78-159.
update_state ==
    \E sample_weight \in SampleWeights :
        /\ IF is_truthy(sample_weight)
           THEN \* raise NotImplementedError
                /\ UNCHANGED <<true_positives, false_positives, ground_truth_boxes, seen>>
                /\ last' = [op |-> "raise", sample_weight |-> sample_weight,
                            y_true |-> <<>>, y_pred |-> <<>>, before |-> counters]
           ELSE \E n \in 1 .. MaxImages - Len(seen.y_true) :
                \E y_true \in [1 .. n -> TrueTensors], y_pred \in [1 .. n -> PredTensors] :
                /\ set_counters(assign_add(counters, compute_update(y_true, y_pred)))
                /\ seen' = [y_true |-> seen.y_true \o y_true, y_pred |-> seen.y_pred \o y_pred]
                /\ last' = [op |-> "update", sample_weight |-> sample_weight,
                            y_true |-> y_true, y_pred |-> y_pred, before |-> counters,
                            after_reset |-> IF last.op = "reset" THEN last.dirty ELSE "no"]
        /\ UNCHANGED <<iou_thresholds, category_ids, area_range, max_detections,
                       given_iou_thresholds, match_vars>>

\* reset_state(), lines 71-75.  super().reset_state() is the framework's own
\* reset; it is taken to leave the configuration of the metric as it is.
\* last.dirty records whether some counter was not zero when it was called,
\* and the after_reset of an update_state whether the call before it was a
\* reset_state ("no" when it was not).
reset_state ==
    /\ set_counters(reset_counters(counters))
    /\ seen' = NoImages
    /\ last' = [op |-> "reset", sample_weight |-> None, y_true |-> <<>>, y_pred |-> <<>>,
                before |-> reset_counters(counters),
                dirty |-> IF AllZero(counters) THEN "clean" ELSE "dirty"]
    /\ UNCHANGED <<iou_thresholds, category_ids, area_range, max_detections,
                   given_iou_thresholds, match_vars>>

Next == update_state \/ reset_state

Spec == Init /\ [][Next]_vars

(***************************************************************************)
(* _match_boxes on its own: the arguments are drawn, then the call is made.*)
(***************************************************************************)
AccIdle ==
    /\ given_iou_thresholds = <<>>
    /\ iou_thresholds = <<>>
    /\ category_ids = <<>>
    /\ area_range = <<0, 2147483647>>
    /\ max_detections = 100
    /\ true_positives = <<>>
    /\ false_positives = <<>>
    /\ ground_truth_boxes = <<>>
    /\ seen = NoImages
    /\ last = [op |-> "idle"]

MatchInit ==
    /\ AccIdle
    /\ \E num_true \in 0 .. MaxTrue, num_pred \in 0 .. MaxPred :
          /\ m_y_true = [i \in 1 .. num_true |-> BoxA(1, 0)]
          /\ m_y_pred = [i \in 1 .. num_pred |-> BoxA(1, 1)]
          /\ m_ious \in [0 .. num_true - 1 -> [0 .. num_pred - 1 -> IoUValues]]
    /\ m_threshold \in MatchThresholds
    /\ m_pred_matches = <<>>
    /\ m_pc = "call"

match_boxes_call ==
    /\ m_pc = "call"
    /\ m_pred_matches' = match_boxes(m_y_true, m_y_pred, m_threshold, m_ious)
    /\ m_pc' = "done"
    /\ UNCHANGED <<m_y_true, m_y_pred, m_threshold, m_ious, acc_vars>>

MatchNext == match_boxes_call

MatchSpec == MatchInit /\ [][MatchNext]_vars

(***************************************************************************)
(* Properties of _match_boxes, stated on the arguments and the result.     *)
(***************************************************************************)
GroundTruthIdx == 0 .. Len(m_y_true) - 1
DetectionIdx == 0 .. Len(m_y_pred) - 1

\* The ground truths detection d may take: IoU >= threshold and not the match
\* of an earlier detection.
Available(d) ==
    {g \in GroundTruthIdx :
        /\ m_ious[g][d] >= m_threshold
        /\ \A e \in 0 .. d - 1 : m_pred_matches[e] # g}

\* C1: every detection is assigned the available ground truth (IoU >=
\* threshold, not matched to an earlier detection) of highest IoU, the lowest
\* index among those of equal highest IoU, and -1 when there is none.
C1_HighestIoULowestIndex ==
    m_pc = "done" =>
        \A d \in DetectionIdx :
            IF Available(d) = {}
            THEN m_pred_matches[d] = -1
            ELSE /\ m_pred_matches[d] \in Available(d)
                 /\ \A g \in Available(d) :
                       \/ m_ious[g][d] < m_ious[m_pred_matches[d]][d]
                       \/ /\ m_ious[g][d] = m_ious[m_pred_matches[d]][d]
                          /\ m_pred_matches[d] <= g

\* C8: no ground-truth index is assigned to two detections.
C8_GroundTruthMatchedOnce ==
    m_pc = "done" =>
        \A d1, d2 \in DetectionIdx :
            (d1 # d2 /\ m_pred_matches[d1] # -1) => m_pred_matches[d1] # m_pred_matches[d2]

\* Two detections, both matched, that both reach the threshold on one and
\* the same ground truth.
C8_Witness ==
    /\ m_pc = "done"
    /\ \E d1, d2 \in DetectionIdx, g \in GroundTruthIdx :
          /\ d1 # d2
          /\ m_pred_matches[d1] # -1
          /\ m_pred_matches[d2] # -1
          /\ m_ious[g][d1] >= m_threshold
          /\ m_ious[g][d2] >= m_threshold

\* C9: the result has one entry per detection; an entry is -1 or the index
\* of a ground truth whose IoU with the detection is >= threshold; a
\* detection that has an available ground truth of IoU equal to the
\* threshold is matched; with no ground truths every entry is -1.
C9_OneValidEntryPerDetection ==
    m_pc = "done" =>
        /\ DOMAIN m_pred_matches = DetectionIdx
        /\ \A d \in DetectionIdx :
              /\ \/ m_pred_matches[d] = -1
                 \/ /\ m_pred_matches[d] \in GroundTruthIdx
                    /\ m_ious[m_pred_matches[d]][d] >= m_threshold
              /\ (\E g \in Available(d) : m_ious[g][d] = m_threshold)
                    => m_pred_matches[d] # -1
        /\ (GroundTruthIdx = {} => \A d \in DetectionIdx : m_pred_matches[d] = -1)

\* A detection matched to a ground truth whose IoU is exactly the threshold.
C9_Witness ==
    /\ m_pc = "done"
    /\ \E d \in DetectionIdx :
          /\ m_pred_matches[d] # -1
          /\ m_ious[m_pred_matches[d]][d] = m_threshold

(***************************************************************************)
(* Properties of the counters.                                             *)
(***************************************************************************)
RECURSIVE SumSeq(_)
SumSeq(s) == IF s = <<>> THEN 0 ELSE Head(s) + SumSeq(Tail(s))

ThresholdIdx == 0 .. num_thresholds - 1
CategoryIdx == 0 .. num_categories - 1

\* The rows of one image's tensor that are no sentinel, lie in the area
\* range and have the category of index k.
Counted(rows, k) ==
    {i \in DOMAIN rows :
        /\ rows[i].cls # -1
        /\ bbox_area(rows[i]) >= area_range[1]
        /\ bbox_area(rows[i]) <= area_range[2]
        /\ rows[i].cls = category_ids[k]}

\* The counted prediction of highest confidence, the earliest row among equals.
IsTop(rows, k, i) ==
    /\ i \in Counted(rows, k)
    /\ \A j \in Counted(rows, k) :
          \/ rows[j].conf < rows[i].conf
          \/ rows[j].conf = rows[i].conf /\ j >= i

\* 1 when the top prediction of the image reaches the threshold on some
\* counted ground truth of the category.
TopMatches(true_rows, pred_rows, t, k) ==
    IF \E i \in DOMAIN pred_rows, g \in Counted(true_rows, k) :
          /\ IsTop(pred_rows, k, i)
          /\ iou_of(true_rows[g], pred_rows[i]) >= iou_thresholds[t]
    THEN 1 ELSE 0

\* C2: one update_state call adds to true_positives[t,k] + false_positives[t,k]
\* the sum over the images of min(n, max_detections), n the number of counted
\* predictions of category k; with max_detections = 1 the one prediction
\* matched or counted is the one of highest confidence.
C2_CappedDetectionCount ==
    last.op = "update" =>
        \A t \in ThresholdIdx, k \in CategoryIdx :
            /\ (true_positives[t][k] + false_positives[t][k])
                  - (last.before.true_positives[t][k] + last.before.false_positives[t][k])
               = SumSeq([img \in DOMAIN last.y_pred |->
                            Min(Cardinality(Counted(last.y_pred[img], k)), max_detections)])
            /\ max_detections = 1 =>
                  true_positives[t][k] - last.before.true_positives[t][k]
                  = SumSeq([img \in DOMAIN last.y_pred |->
                               TopMatches(last.y_true[img], last.y_pred[img], t, k)])

\* A call with an image that has more counted predictions of a category than
\* max_detections.
C2_Witness ==
    /\ last.op = "update"
    /\ num_thresholds > 0
    /\ \E img \in DOMAIN last.y_pred, k \in CategoryIdx :
          Cardinality(Counted(last.y_pred[img], k)) > max_detections

\* C3: one update_state call adds to ground_truth_boxes[k] the number of
\* counted ground truths of category k, summed over the images of the batch.
C3_GroundTruthsCountedOnce ==
    last.op = "update" =>
        \A k \in CategoryIdx :
            ground_truth_boxes[k] - last.before.ground_truth_boxes[k]
            = SumSeq([img \in DOMAIN last.y_true |->
                         Cardinality(Counted(last.y_true[img], k))])

\* A call on two images that both have ground truths of one category, with
\* more than one threshold.
C3_Witness ==
    /\ last.op = "update"
    /\ num_thresholds > 1
    /\ Len(last.y_true) = 2
    /\ \E k \in CategoryIdx :
          /\ Counted(last.y_true[1], k) # {}
          /\ Counted(last.y_true[2], k) # {}

\* C4: a call that passes a sample_weight other than None raises.
C4_SampleWeightRejected ==
    ~ last.sample_weight.none => last.op = "raise"

\* C5: the counters after any sequence of update_state calls are those of
\* one update_state call, from the zeroed counters, on the concatenation of
\* the batches.
C5_Additivity ==
    counters = assign_add(reset_counters(counters),
                          compute_update(seen.y_true, seen.y_pred))

\* Two calls made one after another, the second one adding to what the first
\* one left.
C5_Witness ==
    /\ last.op = "update"
    /\ Len(seen.y_true) > Len(last.y_true)
    /\ \E k \in CategoryIdx :
          /\ last.before.ground_truth_boxes[k] > 0
          /\ ground_truth_boxes[k] > last.before.ground_truth_boxes[k]

C10_TruePositivesAtMostGroundTruths ==
    \A t \in ThresholdIdx, k \in CategoryIdx : true_positives[t][k] <= ground_truth_boxes[k]

\* Every ground truth of a category matched while a detection of the
\* category went unmatched.
C10_Witness ==
    \E t \in ThresholdIdx, k \in CategoryIdx :
        /\ ground_truth_boxes[k] > 0
        /\ true_positives[t][k] = ground_truth_boxes[k]
        /\ false_positives[t][k] > 0

====
